---- MODULE Spec2Model ----
(***************************************************************************)
(* SmartGantt: the ticket collection kept by App (tickets, syncParentDates, *)
(* updateTicket, saveTicket, deleteTicket), the calendar functions of      *)
(* utils/dateUtils, the ticket form and the Gantt chart's drag handlers.   *)
(*                                                                         *)
(* Dates are day numbers: the number of days since 1970-01-01, so that the  *)
(* order of two ISO date strings ("YYYY-MM-DD", compared with < and > in    *)
(* the code) is the order of their day numbers.                            *)
(* A ticket id is a number >= 1; parentId null is NoParent.                 *)
(***************************************************************************)
EXTENDS Integers, Sequences, FiniteSets, TLC

VARIABLES
    tickets,                \* App: useState<Ticket[]>  (a sequence of ticket records)
    holidays,               \* Holiday[]                (a sequence of day numbers)
    form,                   \* TicketForm: NoForm, or the open form's state
    draggingBar,            \* GanttChart: the bar drag in progress, or NoDrag
    draggingListTicketId,   \* GanttChart (list drag-drop): dragged id, or NoParent
    draggedTicketId,        \* GanttChart (row drag-drop): dragged id, or NoParent
    searchQuery,            \* App: the search box, NoQuery or a text (the ids it finds)
    tzOffset,               \* environment: the local time zone, hours east of UTC
    outcome,                \* what the last handler surfaced to its caller / the user
    last                    \* history: the last handler that called the store, or "load"

vars == <<tickets, holidays, form, draggingBar, draggingListTicketId,
          draggedTicketId, searchQuery, tzOffset, outcome, last>>

---------------------------------------------------------------------------
(* Bounds of the model *)

MaxId == 3
MaxTickets == 3
MaxDay == 1
MaxHours == 2
MaxHolidays == 1

(* a JS number of hours is kept as a count of 1/HourUnit hours *)
HourUnit == 2

(* Program constants *)

MaxIterations == 10

NoParent == 0
NoForm == [open |-> FALSE]
NoDrag == [active |-> FALSE]
NoTicket == [id |-> 0]
NoQuery == [query |-> FALSE]

Ids == 1..MaxId

(* the number n, a whole number *)
Whole(n) == n * HourUnit

(* Math.ceil, to a whole number *)
Ceil(x) == - ((- x) \div HourUnit)

(* a ticket of h hours, h a whole number *)
Ticket(i, p, s, d, h) ==
    [id |-> i, parentId |-> p, startDate |-> s, dueDate |-> d, estimatedHours |-> Whole(h)]

---------------------------------------------------------------------------
(* Sequence helpers: Array.prototype.some / find / reduce *)

Some(s, P(_)) == \E i \in 1..Len(s) : P(s[i])

FindIndex(s, P(_)) ==
    IF Some(s, P) THEN CHOOSE i \in 1..Len(s) : P(s[i]) /\ \A j \in 1..(i-1) : ~P(s[j])
    ELSE 0

SeqMin(s, F(_)) == CHOOSE m \in {F(s[i]) : i \in 1..Len(s)} :
                        \A i \in 1..Len(s) : m <= F(s[i])

SeqMax(s, F(_)) == CHOOSE m \in {F(s[i]) : i \in 1..Len(s)} :
                        \A i \in 1..Len(s) : m >= F(s[i])

(* { ...t, ...updates }: the fields of updates replace those of t *)
Merge(t, updates) ==
    [f \in DOMAIN t \cup DOMAIN updates |->
        IF f \in DOMAIN updates THEN updates[f] ELSE t[f]]

---------------------------------------------------------------------------
(* App.syncParentDates *)

GetStart(t) == t.startDate
GetDue(t) == t.dueDate

ChildrenOf(ts, id) == SelectSeq(ts, LAMBDA t : t.parentId = id)

(* SyncTicket that gives a container the estimated hours of its first child too *)
SyncTicketWithHours(result, ticket) ==
    LET children == ChildrenOf(result, ticket.id)
    IN  IF Len(children) = 0 THEN ticket
        ELSE [ticket EXCEPT !.startDate = SeqMin(children, GetStart),
                            !.dueDate = SeqMax(children, GetDue),
                            !.estimatedHours = children[1].estimatedHours]

SyncTicket(result, ticket) ==
    LET children == ChildrenOf(result, ticket.id)
    IN  IF Len(children) = 0 THEN ticket
        ELSE LET minStart == SeqMin(children, GetStart)
                 maxEnd == SeqMax(children, GetDue)
             IN  IF ticket.startDate # minStart \/ ticket.dueDate # maxEnd
                 THEN [ticket EXCEPT !.startDate = minStart, !.dueDate = maxEnd]
                 ELSE ticket

SyncPass(result) == [i \in 1..Len(result) |-> SyncTicket(result, result[i])]

RECURSIVE SyncLoop(_, _, _)
SyncLoop(result, changed, iterations) ==
    IF changed /\ iterations < MaxIterations
    THEN LET nextResult == SyncPass(result)
         IN  SyncLoop(nextResult, nextResult # result, iterations + 1)
    ELSE result

syncParentDates(allTickets) == SyncLoop(allTickets, TRUE, 0)

---------------------------------------------------------------------------
(* App.updateTicket / saveTicket / deleteTicket: the new value of tickets *)

updateTicket(prev, id, updates) ==
    syncParentDates([i \in 1..Len(prev) |->
        IF prev[i].id = id THEN Merge(prev[i], updates) ELSE prev[i]])

saveTicketEdit(prev, selectedId, formData) ==
    syncParentDates([i \in 1..Len(prev) |->
        IF prev[i].id = selectedId THEN Merge(prev[i], formData) ELSE prev[i]])

NewTicketDefaults(newId, today) == Ticket(newId, NoParent, today, today, 0)

saveTicketNew(prev, newId, today, formData) ==
    syncParentDates(Append(prev, Merge(NewTicketDefaults(newId, today), formData)))

deleteTicket(prev, id) ==
    syncParentDates(SelectSeq(prev, LAMBDA t : t.id # id))

---------------------------------------------------------------------------
(* utils/dateUtils.  A Date object is an instant, in hours since             *)
(* 1970-01-01T00:00Z; its local calendar day depends on the time zone.       *)

(* getFullYear / getMonth / getDate: the local calendar day of an instant *)
LocalDay(date) == (date + tzOffset) \div 24

(* new Date(y, m, d): local midnight of a calendar day *)
LocalMidnight(day) == 24 * day - tzOffset

(* new Date("YYYY-MM-DD"): an ISO date-only string is read as UTC midnight *)
NewDateIso(dateStr) == 24 * dateStr

formatDate(date) == LocalDay(date)

parseDate(dateStr) == LocalMidnight(dateStr)

addDays(date, days) == LocalMidnight(LocalDay(date) + days)

(* Date.getDay(): 0 is Sunday, 6 is Saturday; 1970-01-01 was a Thursday *)
getDay(date) == (LocalDay(date) + 4) % 7

(* isWorkDay with the holiday looked up by the UTC day of the instant, as   *)
(* toISOString().split('T')[0] gives it                                    *)
isWorkDayUtc(date, hol) ==
    LET day == getDay(date)
    IN  IF day = 0 \/ day = 6 THEN FALSE
        ELSE LET dateStr == date \div 24
             IN  ~ Some(hol, LAMBDA h : h = dateStr)

isWorkDay(date, hol) ==
    LET day == getDay(date)
    IN  IF day = 0 \/ day = 6 THEN FALSE
        ELSE LET dateStr == formatDate(date)
             IN  ~ Some(hol, LAMBDA h : h = dateStr)

RECURSIVE SlideToWorkDay(_, _)
SlideToWorkDay(current, hol) ==
    IF ~ isWorkDay(current, hol) THEN SlideToWorkDay(addDays(current, 1), hol)
    ELSE current

RECURSIVE CountBackward(_, _, _, _)
(* CountForward stepping a day back instead of a day on *)
CountBackward(current, count, remaining, hol) ==
    IF count < remaining
    THEN LET next == addDays(current, -1)
         IN  CountBackward(next, IF isWorkDay(next, hol) THEN count + 1 ELSE count,
                           remaining, hol)
    ELSE current

RECURSIVE CountForward(_, _, _, _)
CountForward(current, count, remaining, hol) ==
    IF count < remaining
    THEN LET next == addDays(current, 1)
         IN  CountForward(next, IF isWorkDay(next, hol) THEN count + 1 ELSE count,
                          remaining, hol)
    ELSE current

(* addWorkDays with Math.abs in place of the clamp to 1 *)
addWorkDaysAbs(startDate, workDays, hol) ==
    LET current == LocalMidnight(LocalDay(startDate))
        size == IF workDays < 0 THEN Ceil(- workDays) ELSE Ceil(workDays)
        remaining == IF size > 1 THEN size ELSE 1
    IN  CountForward(SlideToWorkDay(current, hol), 1, remaining, hol)

(* addWorkDays with the first work day not counted as day 1 *)
addWorkDaysFromZero(startDate, workDays, hol) ==
    LET current == LocalMidnight(LocalDay(startDate))
        remaining == IF Ceil(workDays) > 1 THEN Ceil(workDays) ELSE 1
    IN  CountForward(SlideToWorkDay(current, hol), 0, remaining, hol)

(* remaining is Math.max(1, Math.ceil(workDays)) *)
addWorkDays(startDate, workDays, hol) ==
    LET current == LocalMidnight(LocalDay(startDate))
        remaining == IF Ceil(workDays) > 1 THEN Ceil(workDays) ELSE 1
    IN  CountForward(SlideToWorkDay(current, hol), 1, remaining, hol)

RECURSIVE CountLoop(_, _, _, _)
CountLoop(current, target, count, hol) ==
    IF current <= target
    THEN CountLoop(addDays(current, 1), target,
                   IF isWorkDay(current, hol) THEN count + 1 ELSE count, hol)
    ELSE count

(* countWorkDays as the weekdays of the range less the holiday entries in it *)
countWorkDaysLessHolidays(start, end, hol) ==
    LET current == LocalMidnight(LocalDay(start))
        target == LocalMidnight(LocalDay(end))
        inRange == {k \in 1..Len(hol) : LocalDay(current) <= hol[k] /\ hol[k] <= LocalDay(target)}
    IN  IF current > target THEN 0
        ELSE CountLoop(current, target, 0, <<>>) - Cardinality(inRange)

countWorkDays(start, end, hol) ==
    LET current == LocalMidnight(LocalDay(start))
        target == LocalMidnight(LocalDay(end))
    IN  IF current > target THEN 0 ELSE CountLoop(current, target, 0, hol)

---------------------------------------------------------------------------
(* The parent-chain walks: GanttChart.isAncestor and TicketForm.isDescendant. *)
(* The code's while loop follows parentId until a ticket has none or is not   *)
(* found; on a parent cycle that does not hold the id looked for it never     *)
(* ends, which the walk reports as "loops" once it has made more steps than   *)
(* there are tickets.                                                        *)

IndexOfId(ts, id) == FindIndex(ts, LAMBDA t : t.id = id)

RECURSIVE ParentWalk(_, _, _, _)
ParentWalk(ts, lookedFor, current, fuel) ==
    IF current = 0 \/ ts[current].parentId = NoParent THEN "no"
    ELSE IF ts[current].parentId = lookedFor THEN "yes"
    ELSE IF fuel = 0 THEN "loops"
    ELSE ParentWalk(ts, lookedFor, IndexOfId(ts, ts[current].parentId), fuel - 1)

isAncestor(ts, ancestorId, ticketId) ==
    ParentWalk(ts, ancestorId, IndexOfId(ts, ticketId), Len(ts))

(* isDescendant that looks at the parent only, not further up *)
isDescendantOneLevel(ts, potentialParentId, currentTicketId) ==
    LET current == IndexOfId(ts, potentialParentId)
    IN  IF current # 0 /\ ts[current].parentId = currentTicketId /\ currentTicketId # NoParent
        THEN "yes" ELSE "no"

isDescendant(ts, potentialParentId, currentTicketId) ==
    ParentWalk(ts, currentTicketId, IndexOfId(ts, potentialParentId), Len(ts))

hasChildren(ts, id) == Some(ts, LAMBDA t : t.parentId = id)

(* TicketForm.potentialParents: the ids offered in the parent select *)
potentialParents(ts, ticket) ==
    {ts[i].id : i \in {j \in 1..Len(ts) :
        IF ticket = NoTicket THEN TRUE
        ELSE IF ts[j].id = ticket.id THEN FALSE
        ELSE IF isDescendant(ts, ts[j].id, ticket.id) = "yes" THEN FALSE
        ELSE TRUE}}

(* the filter of potentialParents ends: no walk it makes loops *)
PotentialParentsEnds(ts, ticket) ==
    ticket = NoTicket \/
    \A j \in 1..Len(ts) :
        ts[j].id = ticket.id \/ isDescendant(ts, ts[j].id, ticket.id) # "loops"

---------------------------------------------------------------------------
(* What the handlers share *)

(* App.filteredTickets, what the chart is given. A search text is kept as   *)
(* the set of the ids of the tickets whose subject or id holds it; the sort *)
(* that follows changes the order only                                      *)
SearchText(ids) == [query |-> TRUE, found |-> ids]

filteredTickets ==
    IF searchQuery = NoQuery THEN tickets
    ELSE SelectSeq(tickets, LAMBDA t : t.id \in searchQuery.found)

ChartTickets == filteredTickets

(* the search box is typed into *)
setSearchQuery(query) ==
    /\ form = NoForm
    /\ draggingBar = NoDrag
    /\ draggingListTicketId = NoParent
    /\ draggedTicketId = NoParent
    /\ searchQuery # query
    /\ searchQuery' = query
    /\ UNCHANGED <<tickets, holidays, form, draggingBar, draggingListTicketId, draggedTicketId,
                   tzOffset, outcome, last>>

Idle ==
    /\ form = NoForm
    /\ draggingBar = NoDrag
    /\ draggingListTicketId = NoParent
    /\ draggedTicketId = NoParent

Done(op, out) ==
    /\ last' = op
    /\ outcome' = out

(* model bound: the dates a handler writes stay within the model's days *)
DayLimit == MaxDay + 4

InDayRange(ts) ==
    \A i \in 1..Len(ts) : ts[i].startDate \in 0..DayLimit /\ ts[i].dueDate \in 0..DayLimit

(* the local day on which the form is opened *)
Todays == {0}

---------------------------------------------------------------------------
(* TicketForm: the effect that fills the form, and its handlers *)

FormHasChildren ==
    IF form.ticket = NoTicket THEN FALSE ELSE hasChildren(tickets, form.ticket.id)

OpenNewForm(today) ==
    /\ Idle
    /\ form' = [open |-> TRUE, ticket |-> NoTicket,
                formData |-> [parentId |-> NoParent,
                              startDate |-> formatDate(LocalMidnight(today)),
                              dueDate |-> formatDate(addWorkDays(LocalMidnight(today), Whole(1), holidays)),
                              estimatedHours |-> Whole(1)],
                estHoursStr |-> Whole(1)]
    /\ UNCHANGED <<last, outcome>>
    /\ UNCHANGED <<tickets, holidays, draggingBar, draggingListTicketId, draggedTicketId, tzOffset,
                 searchQuery>>

OpenEditForm(i) ==
    /\ Idle
    /\ i \in 1..Len(tickets)
    /\ PotentialParentsEnds(tickets, tickets[i])
    /\ form' = [open |-> TRUE, ticket |-> tickets[i], formData |-> tickets[i],
                estHoursStr |-> tickets[i].estimatedHours]
    /\ UNCHANGED <<last, outcome>>
    /\ UNCHANGED <<tickets, holidays, draggingBar, draggingListTicketId, draggedTicketId, tzOffset,
                 searchQuery>>

(* handleChange, name = "parentId": value is "" (no parent) or an offered id *)
FormChangeParent(value) ==
    /\ form # NoForm
    /\ value \in {NoParent} \cup potentialParents(tickets, form.ticket)
    /\ form' = [form EXCEPT !.formData.parentId = value]
    /\ UNCHANGED <<last, outcome>>
    /\ UNCHANGED <<tickets, holidays, draggingBar, draggingListTicketId, draggedTicketId, tzOffset,
                 searchQuery>>

(* handleChange, name = "startDate" (the input is disabled when the ticket has children) *)
FormChangeStart(value) ==
    /\ form # NoForm
    /\ ~ FormHasChildren
    /\ LET num == form.estHoursStr
           newDueDate == addWorkDays(NewDateIso(value), num, holidays)
       IN  form' = [form EXCEPT !.formData.startDate = value,
                                !.formData.dueDate =
                                    IF num > 0 THEN formatDate(newDueDate) ELSE @]
    /\ UNCHANGED <<last, outcome>>
    /\ UNCHANGED <<tickets, holidays, draggingBar, draggingListTicketId, draggedTicketId, tzOffset,
                 searchQuery>>

(* handleEstHoursChange; val 0 stands for every text that is no number above 0 *)
FormChangeEstHours(val) ==
    /\ form # NoForm
    /\ ~ FormHasChildren
    /\ LET newDueDate == addWorkDays(NewDateIso(form.formData.startDate), val, holidays)
       IN  form' = [form EXCEPT !.estHoursStr = val,
                                !.formData.estimatedHours = IF val > 0 THEN val ELSE @,
                                !.formData.dueDate =
                                    IF val > 0 THEN formatDate(newDueDate) ELSE @]
    /\ UNCHANGED <<last, outcome>>
    /\ UNCHANGED <<tickets, holidays, draggingBar, draggingListTicketId, draggedTicketId, tzOffset,
                 searchQuery>>

(* handleSave, then App.saveTicket; newId is the random id of a new ticket *)
FormSave(newId, today, maxTickets) ==
    /\ form # NoForm
    /\ LET hours == form.estHoursStr
           formData == [form.formData EXCEPT !.estimatedHours = hours]
       IN  IF hours <= 0
           THEN /\ Done("handleSave", "invalid")
                /\ UNCHANGED <<tickets, form>>
           ELSE IF form.ticket # NoTicket
           THEN /\ tickets' = saveTicketEdit(tickets, form.ticket.id, formData)
                /\ form' = NoForm
                /\ Done("saveTicketEdit", "saved")
           ELSE /\ Len(tickets) < maxTickets
                /\ tickets' = saveTicketNew(tickets, newId, today, formData)
                /\ form' = NoForm
                /\ Done("saveTicketNew", "saved")
    /\ InDayRange(tickets')
    /\ UNCHANGED <<holidays, draggingBar, draggingListTicketId, draggedTicketId, tzOffset,
                 searchQuery>>

FormClose ==
    /\ form # NoForm
    /\ form' = NoForm
    /\ UNCHANGED <<last, outcome>>
    /\ UNCHANGED <<tickets, holidays, draggingBar, draggingListTicketId, draggedTicketId, tzOffset,
                 searchQuery>>

(* the form's delete button, then App.deleteTicket (the confirm is accepted) *)
FormDelete ==
    /\ form # NoForm
    /\ form.ticket # NoTicket
    /\ tickets' = deleteTicket(tickets, form.ticket.id)
    /\ form' = NoForm
    /\ Done("deleteTicket", "deleted")
    /\ UNCHANGED <<holidays, draggingBar, draggingListTicketId, draggedTicketId, tzOffset,
                 searchQuery>>

---------------------------------------------------------------------------
(* GanttChart: the timeline's range.  The model's days all lie in January and *)
(* February 1970, whose first days are day 0 and day 31.                      *)

MonthStartDay(day) == IF day < 31 THEN 0 ELSE 31

timelineMin ==
    LocalMidnight(MonthStartDay(LocalDay(
        SeqMin(ChartTickets, LAMBDA t : parseDate(t.startDate)))))

timelineMax ==
    addDays(SeqMax(ChartTickets, LAMBDA t : parseDate(t.dueDate)), 90)

---------------------------------------------------------------------------
(* GanttChart: dragging a bar (handleBarMouseDown, handleMouseMove, handleMouseUp) *)

DragTypes == {"move", "resize-start", "resize-end"}

handleBarMouseDown(i, type) ==
    /\ Idle
    /\ i \in 1..Len(ChartTickets)
    /\ LET ticket == ChartTickets[i]
       IN  IF hasChildren(ChartTickets, ticket.id) /\ type # "move"
           THEN /\ Done("handleBarMouseDown", "ignored")
                /\ UNCHANGED draggingBar
           ELSE /\ draggingBar' = [active |-> TRUE, id |-> ticket.id, type |-> type,
                                   originalStart |-> ticket.startDate,
                                   originalEnd |-> ticket.dueDate,
                                   estimatedHours |-> ticket.estimatedHours]
                /\ UNCHANGED <<last, outcome>>
    /\ UNCHANGED <<tickets, holidays, form, draggingListTicketId, draggedTicketId, tzOffset,
                 searchQuery>>

RECURSIVE SlideBelow(_, _, _)
(* while (!isWorkDay(newStart, holidays) && newStart < limit) newStart = addDays(newStart, 1) *)
SlideBelow(newStart, limit, hol) ==
    IF ~ isWorkDay(newStart, hol) /\ newStart < limit
    THEN SlideBelow(addDays(newStart, 1), limit, hol)
    ELSE newStart

(* the update a mouse-move by daysDelta days sends to onUpdateTicket, or NoUpdate *)
NoUpdate == [none |-> TRUE]

MoveUpdate(bar, daysDelta, hol) ==
    LET shifted == addDays(parseDate(bar.originalStart), daysDelta)
        clamped == IF shifted < timelineMin THEN timelineMin ELSE shifted
        newStart == SlideBelow(clamped, timelineMax, hol)
        newDue == addWorkDays(newStart, bar.estimatedHours, hol)
    IN  IF newDue > timelineMax THEN NoUpdate
        ELSE [startDate |-> formatDate(newStart), dueDate |-> formatDate(newDue)]

(* ResizeEndUpdate with the due date left where the mouse put it, not moved *)
(* to the day the counted work days end on                                  *)
ResizeEndUpdateAtMouse(bar, daysDelta, hol) ==
    LET shifted == addDays(parseDate(bar.originalEnd), daysDelta)
        newEnd == IF shifted > timelineMax THEN timelineMax ELSE shifted
        newWorkDays == countWorkDays(parseDate(bar.originalStart), newEnd, hol)
    IN  IF newWorkDays >= 1
        THEN [dueDate |-> formatDate(newEnd), estimatedHours |-> Whole(newWorkDays)]
        ELSE NoUpdate

ResizeEndUpdate(bar, daysDelta, hol) ==
    LET shifted == addDays(parseDate(bar.originalEnd), daysDelta)
        newEnd == IF shifted > timelineMax THEN timelineMax ELSE shifted
        newWorkDays == countWorkDays(parseDate(bar.originalStart), newEnd, hol)
        actualDue == addWorkDays(parseDate(bar.originalStart), Whole(newWorkDays), hol)
    IN  IF newWorkDays >= 1
        THEN [dueDate |-> formatDate(actualDue), estimatedHours |-> Whole(newWorkDays)]
        ELSE NoUpdate

(* ResizeStartUpdate without the test that a work day is left *)
ResizeStartUpdateUnguarded(bar, daysDelta, hol) ==
    LET shifted == addDays(parseDate(bar.originalStart), daysDelta)
        clamped == IF shifted < timelineMin THEN timelineMin ELSE shifted
        newStart == SlideBelow(clamped, parseDate(bar.originalEnd), hol)
        newWorkDays == countWorkDays(newStart, parseDate(bar.originalEnd), hol)
    IN  [startDate |-> formatDate(newStart), estimatedHours |-> Whole(newWorkDays)]

ResizeStartUpdate(bar, daysDelta, hol) ==
    LET shifted == addDays(parseDate(bar.originalStart), daysDelta)
        clamped == IF shifted < timelineMin THEN timelineMin ELSE shifted
        newStart == SlideBelow(clamped, parseDate(bar.originalEnd), hol)
        newWorkDays == countWorkDays(newStart, parseDate(bar.originalEnd), hol)
    IN  IF newWorkDays >= 1
        THEN [startDate |-> formatDate(newStart), estimatedHours |-> Whole(newWorkDays)]
        ELSE NoUpdate

DragUpdate(bar, daysDelta, hol) ==
    IF bar.type = "move" THEN MoveUpdate(bar, daysDelta, hol)
    ELSE IF bar.type = "resize-end" THEN ResizeEndUpdate(bar, daysDelta, hol)
    ELSE ResizeStartUpdate(bar, daysDelta, hol)

(* a sort mode other than by assignee: a move of 0 days returns at once *)
handleMouseMove(daysDelta) ==
    /\ draggingBar # NoDrag
    /\ LET updates == IF daysDelta = 0 THEN NoUpdate
                      ELSE DragUpdate(draggingBar, daysDelta, holidays)
       IN  IF updates = NoUpdate
           THEN /\ Done("handleMouseMove", "ignored")
                /\ UNCHANGED tickets
           ELSE /\ tickets' = updateTicket(tickets, draggingBar.id, updates)
                /\ Done(draggingBar.type, "updated")
    /\ InDayRange(tickets')
    /\ UNCHANGED <<holidays, form, draggingBar, draggingListTicketId, draggedTicketId, tzOffset,
                 searchQuery>>

handleMouseUp ==
    /\ draggingBar # NoDrag
    /\ draggingBar' = NoDrag
    /\ UNCHANGED <<last, outcome>>
    /\ UNCHANGED <<tickets, holidays, form, draggingListTicketId, draggedTicketId, tzOffset,
                 searchQuery>>

---------------------------------------------------------------------------
(* GanttChart: drag and drop in the ticket list (handleListDragStart, handleListDrop). *)
(* targetId NoParent is the 'root' drop zone.                                         *)

handleListDragStart(i) ==
    /\ Idle
    /\ i \in 1..Len(ChartTickets)
    /\ draggingListTicketId' = ChartTickets[i].id
    /\ UNCHANGED <<last, outcome>>
    /\ UNCHANGED <<tickets, holidays, form, draggingBar, draggedTicketId, tzOffset,
                 searchQuery>>

handleListDrop(targetId) ==
    /\ draggingListTicketId # NoParent
    /\ targetId = NoParent \/ Some(ChartTickets, LAMBDA t : t.id = targetId)
    /\ LET draggedId == draggingListTicketId
       IN  /\ draggingListTicketId' = NoParent
           /\ IF targetId = NoParent
              THEN /\ tickets' = updateTicket(tickets, draggedId, [parentId |-> NoParent])
                   /\ Done("handleListDrop", "updated")
              ELSE IF draggedId = targetId
              THEN /\ Done("handleListDrop", "ignored")
                   /\ UNCHANGED tickets
              ELSE /\ isAncestor(ChartTickets, draggedId, targetId) # "loops"
                   /\ IF isAncestor(ChartTickets, draggedId, targetId) = "yes"
                      THEN /\ Done("handleListDrop", "alert")
                           /\ UNCHANGED tickets
                      ELSE /\ tickets' = updateTicket(tickets, draggedId, [parentId |-> targetId])
                           /\ Done("handleListDrop", "updated")
    /\ UNCHANGED <<holidays, form, draggingBar, draggedTicketId, tzOffset,
                 searchQuery>>

---------------------------------------------------------------------------
(* GanttChart (the chart with row drops and an outdent button): handleDragStart, *)
(* handleDrop on a ticket row, handleOutdent                                     *)

handleDragStart(i) ==
    /\ Idle
    /\ i \in 1..Len(ChartTickets)
    /\ draggedTicketId' = ChartTickets[i].id
    /\ UNCHANGED <<last, outcome>>
    /\ UNCHANGED <<tickets, holidays, form, draggingBar, draggingListTicketId, tzOffset,
                 searchQuery>>

handleDrop(targetTicketId) ==
    /\ draggedTicketId # NoParent
    /\ Some(ChartTickets, LAMBDA t : t.id = targetTicketId)
    /\ draggedTicketId' = NoParent
    /\ IF targetTicketId # draggedTicketId
       THEN /\ tickets' = updateTicket(tickets, draggedTicketId, [parentId |-> targetTicketId])
            /\ Done("handleDrop", "updated")
       ELSE /\ Done("handleDrop", "ignored")
            /\ UNCHANGED tickets
    /\ UNCHANGED <<holidays, form, draggingBar, draggingListTicketId, tzOffset,
                 searchQuery>>

handleOutdent(i) ==
    /\ Idle
    /\ i \in 1..Len(ChartTickets)
    /\ LET ticket == ChartTickets[i]
           parent == IndexOfId(ChartTickets, ticket.parentId)
       IN  /\ ticket.parentId # NoParent
           /\ tickets' = updateTicket(tickets, ticket.id,
                  [parentId |-> IF parent = 0 THEN NoParent
                                ELSE ChartTickets[parent].parentId])
           /\ Done("handleOutdent", "updated")
    /\ UNCHANGED <<holidays, form, draggingBar, draggingListTicketId, draggedTicketId, tzOffset,
                 searchQuery>>

---------------------------------------------------------------------------
(* MasterDataView: addTarget('holiday') and removeTarget('holiday', id) hand the *)
(* new list to onUpdateHolidays                                                  *)

addHoliday(date) ==
    /\ Idle
    /\ Len(holidays) < MaxHolidays
    /\ holidays' = Append(holidays, date)
    /\ Done("addHoliday", "none")
    /\ UNCHANGED <<tickets, form, draggingBar, draggingListTicketId, draggedTicketId, tzOffset,
                 searchQuery>>

removeHoliday(i) ==
    /\ Idle
    /\ i \in 1..Len(holidays)
    /\ holidays' = [j \in 1..(Len(holidays) - 1) |->
                        IF j < i THEN holidays[j] ELSE holidays[j + 1]]
    /\ Done("removeHoliday", "none")
    /\ UNCHANGED <<tickets, form, draggingBar, draggingListTicketId, draggedTicketId, tzOffset,
                 searchQuery>>

---------------------------------------------------------------------------
(* The application: the state once the stored collection is loaded, and the *)
(* user's actions                                                           *)

TzOffsets == {9}

(* stored collections the session starts from: none, a parent with one child, *)
(* a parent with two children                                                 *)
InitialCollections ==
    { <<>>,
      <<Ticket(1, NoParent, 0, 0, 1), Ticket(2, 1, 0, 0, 1)>>,
      <<Ticket(1, NoParent, 0, 1, 1), Ticket(2, 1, 0, 0, 1), Ticket(3, 1, 1, 1, 1)>> }

Init ==
    /\ tickets \in InitialCollections
    /\ holidays = <<>>
    /\ form = NoForm
    /\ draggingBar = NoDrag
    /\ draggingListTicketId = NoParent
    /\ draggedTicketId = NoParent
    /\ tzOffset \in TzOffsets
    /\ searchQuery = NoQuery
    /\ outcome = "none"
    /\ last = "load"

Deltas == {-1, 0, 1}

(* opening the form, choosing a parent, saving, closing, deleting *)
FormActions(maxTickets) ==
    \/ \E today \in Todays : OpenNewForm(today)
    \/ \E i \in 1..maxTickets : OpenEditForm(i)
    \/ \E value \in {NoParent} \cup Ids : FormChangeParent(value)
    \/ \E newId \in Ids, today \in Todays : FormSave(newId, today, maxTickets)
    \/ FormClose
    \/ FormDelete

(* editing the start date and the duration in the form *)
FormDateActions(days) ==
    \/ \E value \in days : FormChangeStart(value)
    \/ \E val \in 0..MaxHours : FormChangeEstHours(Whole(val))

ReparentActions ==
    \/ \E i \in 1..MaxTickets : handleListDragStart(i)
    \/ \E targetId \in {NoParent} \cup Ids : handleListDrop(targetId)
    \/ \E i \in 1..MaxTickets : handleDragStart(i)
    \/ \E targetTicketId \in Ids : handleDrop(targetTicketId)
    \/ \E i \in 1..MaxTickets : handleOutdent(i)

BarActions ==
    \/ \E i \in 1..MaxTickets, type \in DragTypes : handleBarMouseDown(i, type)
    \/ \E daysDelta \in Deltas : handleMouseMove(daysDelta)
    \/ handleMouseUp

HolidayActions ==
    \/ \E date \in 0..MaxDay : addHoliday(date)
    \/ \E i \in 1..MaxHolidays : removeHoliday(i)

(* a session of creating, editing, reparenting and deleting tickets *)
Next ==
    \/ FormActions(MaxTickets)
    \/ ReparentActions

Spec == Init /\ [][Next]_vars

---------------------------------------------------------------------------
(* The store called directly: onUpdateTicket (App.updateTicket), onSave with   *)
(* no ticket selected (App.saveTicket) and onDelete (App.deleteTicket)         *)

ApiUpdateTicket(id, updates) ==
    /\ Idle
    /\ tickets' = updateTicket(tickets, id, updates)
    /\ Done("updateTicket", "updated")
    /\ UNCHANGED <<holidays, form, draggingBar, draggingListTicketId, draggedTicketId, tzOffset,
                 searchQuery>>

ApiCreateTicket(newId, formData) ==
    /\ Idle
    /\ tickets' = saveTicketNew(tickets, newId, formData.startDate, formData)
    /\ Done("saveTicketNew", "saved")
    /\ UNCHANGED <<holidays, form, draggingBar, draggingListTicketId, draggedTicketId, tzOffset,
                 searchQuery>>

ApiDeleteTicket(id) ==
    /\ Idle
    /\ tickets' = deleteTicket(tickets, id)
    /\ Done("deleteTicket", "deleted")
    /\ UNCHANGED <<holidays, form, draggingBar, draggingListTicketId, draggedTicketId, tzOffset,
                 searchQuery>>

DatePatches == {[startDate |-> s, dueDate |-> d] : s \in 0..MaxDay, d \in 0..MaxDay}

---------------------------------------------------------------------------
(* A deep project: one chain of tickets, each the only child of the one before, *)
(* longer than the number of passes syncParentDates makes                       *)

ChainLen == MaxIterations + 3

Chain(n) == [k \in 1..n |-> Ticket(k, k - 1, 0, 0, 1)]

InitChain ==
    /\ tickets = Chain(ChainLen)
    /\ holidays = <<>>
    /\ form = NoForm
    /\ draggingBar = NoDrag
    /\ draggingListTicketId = NoParent
    /\ draggedTicketId = NoParent
    /\ tzOffset \in TzOffsets
    /\ searchQuery = NoQuery
    /\ outcome = "none"
    /\ last = "load"

(* the tickets the calls name: the root, the deepest ticket, and one more id, *)
(* which is in the collection only once a ticket was added under it           *)
ChainIds == {1, ChainLen, ChainLen + 1}

(* model bound: one ticket at most is added to or deleted from the chain *)
NextChain ==
    \/ \E id \in ChainIds, updates \in DatePatches : ApiUpdateTicket(id, updates)
    \/ \E p \in {ChainLen - 1, ChainLen}, dates \in DatePatches :
          /\ Len(tickets) = ChainLen
          /\ ApiCreateTicket(ChainLen + 1,
                [parentId |-> p, startDate |-> dates.startDate,
                 dueDate |-> dates.dueDate, estimatedHours |-> Whole(1)])
    \/ \E id \in ChainIds :
          /\ Len(tickets) >= ChainLen
          /\ ApiDeleteTicket(id)

SpecChain == InitChain /\ [][NextChain]_vars

---------------------------------------------------------------------------
(* A small project whose store is called directly with date and parent patches *)

ParentPatches == {[parentId |-> p] : p \in {NoParent} \cup Ids}

InitApi ==
    /\ tickets \in InitialCollections \ {<<>>}
    /\ holidays = <<>>
    /\ form = NoForm
    /\ draggingBar = NoDrag
    /\ draggingListTicketId = NoParent
    /\ draggedTicketId = NoParent
    /\ tzOffset \in TzOffsets
    /\ searchQuery = NoQuery
    /\ outcome = "none"
    /\ last = "load"

NextApi ==
    \E id \in Ids, updates \in DatePatches \cup ParentPatches : ApiUpdateTicket(id, updates)

SpecApi == InitApi /\ [][NextApi]_vars

---------------------------------------------------------------------------
(* syncParentDates applied to a collection as it may be loaded: the stored    *)
(* and the imported collections reach setTickets as they are                  *)

RECURSIVE Forests(_)
(* the collections of n tickets with ids 1..n in which a parent precedes its child *)
Forests(n) ==
    IF n = 0 THEN {<<>>}
    ELSE {Append(ts, Ticket(n, p, s, d, 1)) :
            ts \in Forests(n - 1), p \in 0..(n - 1), s \in 0..MaxDay, d \in 0..MaxDay}

(* a chain whose last ticket, the only leaf, has its own dates *)
ChainWithLeaf(n, dates) ==
    [k \in 1..n |-> IF k = n THEN Ticket(k, k - 1, dates.startDate, dates.dueDate, 1)
                    ELSE Ticket(k, k - 1, 0, 0, 1)]

RollupInputs(maxTickets) ==
    UNION {Forests(n) : n \in 1..maxTickets}
        \cup {ChainWithLeaf(n, dates) : n \in {MaxIterations, ChainLen}, dates \in DatePatches}

InitRollup ==
    /\ tickets \in RollupInputs(MaxTickets)
    /\ holidays = <<>>
    /\ form = NoForm
    /\ draggingBar = NoDrag
    /\ draggingListTicketId = NoParent
    /\ draggedTicketId = NoParent
    /\ tzOffset \in TzOffsets
    /\ searchQuery = NoQuery
    /\ outcome = "none"
    /\ last = "load"

Rollup ==
    /\ tickets' = syncParentDates(tickets)
    /\ Done("syncParentDates", "synced")
    /\ UNCHANGED <<holidays, form, draggingBar, draggingListTicketId, draggedTicketId, tzOffset,
                 searchQuery>>

NextRollup == Rollup

SpecRollup == InitRollup /\ [][NextRollup]_vars

---------------------------------------------------------------------------
(* One leaf ticket on the chart, its bar dragged, under each holiday list *)

MaxStart == 3

HolidayLists == {<<>>} \cup {<<d>> : d \in 0..DayLimit}

CalCollections ==
    {<<Ticket(1, NoParent, s, d, h)>> : s \in 0..MaxStart, d \in 0..DayLimit, h \in 1..MaxHours}

InitCal ==
    /\ tickets \in {ts \in CalCollections : ts[1].startDate <= ts[1].dueDate}
    /\ holidays \in {hol \in HolidayLists : Len(hol) <= MaxHolidays}
    /\ form = NoForm
    /\ draggingBar = NoDrag
    /\ draggingListTicketId = NoParent
    /\ draggedTicketId = NoParent
    /\ tzOffset \in TzOffsets
    /\ searchQuery = NoQuery
    /\ outcome = "none"
    /\ last = "load"

NextCal ==
    \/ BarActions
    \/ HolidayActions

SpecCal == InitCal /\ [][NextCal]_vars

---------------------------------------------------------------------------
(* A session of the chart whose list checks a drop: tickets are created,     *)
(* rescheduled in the form, reparented by a drop in the list, and deleted.   *)
(* The random id of a new ticket is one no ticket has.                       *)

FreshIds == {id \in Ids : ~ Some(tickets, LAMBDA t : t.id = id)}

MaxScheduled == 2

InitSchedule ==
    /\ tickets \in {<<>>, <<Ticket(1, NoParent, 0, 0, 1), Ticket(2, 1, 0, 0, 1)>>}
    /\ holidays = <<>>
    /\ form = NoForm
    /\ draggingBar = NoDrag
    /\ draggingListTicketId = NoParent
    /\ draggedTicketId = NoParent
    /\ tzOffset \in TzOffsets
    /\ searchQuery = NoQuery
    /\ outcome = "none"
    /\ last = "load"

NextSchedule ==
    \/ \E today \in Todays : OpenNewForm(today)
    \/ \E i \in 1..MaxScheduled : OpenEditForm(i)
    \/ \E value \in {NoParent} \cup Ids : FormChangeParent(value)
    \/ \E newId \in FreshIds \cup {MaxId}, today \in Todays : FormSave(newId, today, MaxScheduled)
    \/ FormClose
    \/ FormDelete
    \/ FormDateActions(0..MaxDay)
    \/ \E i \in 1..MaxScheduled : handleListDragStart(i)
    \/ \E targetId \in {NoParent} \cup Ids : handleListDrop(targetId)

SpecSchedule == InitSchedule /\ [][NextSchedule]_vars

---------------------------------------------------------------------------
(* The form used in a browser whose time zone is east or west of UTC: a      *)
(* ticket is created or opened, rescheduled, saved or deleted                *)

WestOffsets == {-5}

InitZone ==
    /\ tickets \in {<<>>, <<Ticket(1, NoParent, 0, 0, 1)>>}
    /\ holidays = <<>>
    /\ form = NoForm
    /\ draggingBar = NoDrag
    /\ draggingListTicketId = NoParent
    /\ draggedTicketId = NoParent
    /\ tzOffset \in TzOffsets \cup WestOffsets
    /\ searchQuery = NoQuery
    /\ outcome = "none"
    /\ last = "load"

NextZone ==
    \/ \E today \in Todays : OpenNewForm(today)
    \/ \E i \in 1..MaxScheduled : OpenEditForm(i)
    \/ \E newId \in FreshIds \cup {MaxId}, today \in Todays : FormSave(newId, today, MaxScheduled)
    \/ FormClose
    \/ FormDelete
    \/ FormDateActions(0..MaxDay)

SpecZone == InitZone /\ [][NextZone]_vars

---------------------------------------------------------------------------
(* utils/dateUtils called directly: isWorkDay, addWorkDays and countWorkDays *)
(* on Date objects of any time of day, under every holiday list of at most   *)
(* two entries (an entry may repeat, and may fall on a weekend).  outcome    *)
(* holds the arguments and what the call returned.  The functions keep no   *)
(* state: a behaviour is one call on the holiday list drawn.                 *)

MaxCallDay == 7
MaxWork == 4

(* the hours of the local day at which a Date argument is taken *)
CallHours == {0, 15}

CallDates == {LocalMidnight(day) + h : day \in 0..MaxCallDay, h \in CallHours}

CallHolidayLists ==
    {<<>>} \cup {<<a>> : a \in 0..MaxCallDay}
           \cup {<<a, b>> : a \in 0..MaxCallDay, b \in 0..MaxCallDay}

InitDates ==
    /\ tickets = <<>>
    /\ holidays \in CallHolidayLists
    /\ form = NoForm
    /\ draggingBar = NoDrag
    /\ draggingListTicketId = NoParent
    /\ draggedTicketId = NoParent
    /\ tzOffset \in TzOffsets \cup WestOffsets
    /\ searchQuery = NoQuery
    /\ outcome = "none"
    /\ last = "load"

CallIsWorkDay(date) ==
    /\ last = "load"
    /\ Done("isWorkDay", [date |-> date, result |-> isWorkDay(date, holidays)])
    /\ UNCHANGED <<tickets, holidays, form, draggingBar, draggingListTicketId, draggedTicketId, tzOffset,
                 searchQuery>>

CallAddWorkDays(startDate, workDays) ==
    /\ last = "load"
    /\ Done("addWorkDays", [startDate |-> startDate, workDays |-> workDays,
                            result |-> addWorkDays(startDate, Whole(workDays), holidays)])
    /\ UNCHANGED <<tickets, holidays, form, draggingBar, draggingListTicketId, draggedTicketId, tzOffset,
                 searchQuery>>

CallCountWorkDays(start, end) ==
    /\ last = "load"
    /\ Done("countWorkDays", [start |-> start, end |-> end,
                              result |-> countWorkDays(start, end, holidays)])
    /\ UNCHANGED <<tickets, holidays, form, draggingBar, draggingListTicketId, draggedTicketId, tzOffset,
                 searchQuery>>

NextDates ==
    \/ \E date \in CallDates : CallIsWorkDay(date)
    \/ \E startDate \in CallDates, workDays \in (-2)..MaxWork : CallAddWorkDays(startDate, workDays)
    \/ \E start \in CallDates, end \in CallDates : CallCountWorkDays(start, end)

SpecDates == InitDates /\ [][NextDates]_vars

---------------------------------------------------------------------------
(* The form's parent select on a collection as it may be imported: tickets   *)
(* with ids 1..n and any parentId, all on one day.  A ticket is opened, a    *)
(* parent offered is chosen, and the ticket is saved.                        *)

RECURSIVE ParentGraphs(_)
ParentGraphs(n) ==
    IF n = 0 THEN {<<>>}
    ELSE {Append(ts, Ticket(n, p, 0, 0, 1)) : ts \in ParentGraphs(n - 1), p \in {NoParent} \cup Ids}

InitParents ==
    /\ tickets \in UNION {ParentGraphs(n) : n \in 1..MaxTickets}
    /\ holidays = <<>>
    /\ form = NoForm
    /\ draggingBar = NoDrag
    /\ draggingListTicketId = NoParent
    /\ draggedTicketId = NoParent
    /\ tzOffset \in TzOffsets
    /\ searchQuery = NoQuery
    /\ outcome = "none"
    /\ last = "load"

NextParents ==
    \/ \E i \in 1..MaxTickets : OpenEditForm(i)
    \/ \E value \in {NoParent} \cup Ids : FormChangeParent(value)
    \/ \E today \in Todays : FormSave(MaxId, today, MaxTickets)
    \/ FormClose

SpecParents == InitParents /\ [][NextParents]_vars

---------------------------------------------------------------------------
(* The chart behind the search box: a stored parent with one child, rolled  *)
(* up, the search box typed into, and the bars dragged.                     *)

FilterCollections ==
    {<<Ticket(1, NoParent, s, d, h1), Ticket(2, 1, s, d, h2)>> :
        s \in 0..MaxDay, d \in 0..MaxDay, h1 \in 1..MaxHours, h2 \in 1..MaxHours}

InitFilter ==
    /\ tickets \in {ts \in FilterCollections : ts[1].startDate <= ts[1].dueDate}
    /\ holidays = <<>>
    /\ form = NoForm
    /\ draggingBar = NoDrag
    /\ draggingListTicketId = NoParent
    /\ draggedTicketId = NoParent
    /\ tzOffset \in TzOffsets
    /\ searchQuery = NoQuery
    /\ outcome = "none"
    /\ last = "load"

NextFilter ==
    \/ \E query \in {NoQuery} \cup {SearchText({id}) : id \in Ids} : setSearchQuery(query)
    \/ BarActions

SpecFilter == InitFilter /\ [][NextFilter]_vars

---------------------------------------------------------------------------
(* Durations: tickets are created and edited in the form, the duration      *)
(* field taking any number from 0 to MaxHours, whole or not, and the bars   *)
(* are dragged.                                                             *)

HourInputs == 0..Whole(MaxHours)

MaxTimed == 1

InitHours ==
    /\ tickets \in {<<>>, <<Ticket(1, NoParent, 0, 0, 1)>>}
    /\ holidays = <<>>
    /\ form = NoForm
    /\ draggingBar = NoDrag
    /\ draggingListTicketId = NoParent
    /\ draggedTicketId = NoParent
    /\ tzOffset \in TzOffsets
    /\ searchQuery = NoQuery
    /\ outcome = "none"
    /\ last = "load"

NextHours ==
    \/ \E today \in Todays : OpenNewForm(today)
    \/ \E i \in 1..MaxTimed : OpenEditForm(i)
    \/ \E val \in HourInputs : FormChangeEstHours(val)
    \/ \E value \in 0..MaxDay : FormChangeStart(value)
    \/ \E newId \in FreshIds, today \in Todays : FormSave(newId, today, MaxTimed)
    \/ FormClose
    \/ \E i \in 1..MaxTimed, type \in DragTypes : handleBarMouseDown(i, type)
    \/ \E daysDelta \in Deltas : handleMouseMove(daysDelta)
    \/ handleMouseUp

SpecHours == InitHours /\ [][NextHours]_vars

---------------------------------------------------------------------------
(* Bulk loads: the mount effect reads the saved collection, and a CSV file  *)
(* is imported over the collection the application holds.                   *)

(* csvToTickets, from the rows of the file: a row without id is left out *)
csvToTickets(rows) == SelectSeq(rows, LAMBDA row : row.id # 0)

(* localStorage holds no collection *)
NoSaved == [saved |-> FALSE]

(* the mount effect: setTickets(JSON.parse(savedTickets)) if there is one *)
loadSavedTickets(savedTickets) ==
    /\ last = "mount"
    /\ tickets' = IF savedTickets = NoSaved THEN tickets ELSE savedTickets.tickets
    /\ Done("loadSavedTickets", IF savedTickets = NoSaved THEN "none" ELSE "loaded")
    /\ UNCHANGED <<holidays, form, draggingBar, draggingListTicketId, draggedTicketId, tzOffset,
                 searchQuery>>

(* reader.onload of handleImportCsv, the user confirming the import *)
handleImportCsv(rows) ==
    /\ last # "mount"
    /\ Idle
    /\ LET importedTickets == csvToTickets(rows)
       IN  IF Len(importedTickets) > 0
           THEN /\ tickets' = importedTickets
                /\ Done("handleImportCsv", "imported")
           ELSE /\ Done("handleImportCsv", "empty")
                /\ UNCHANGED tickets
    /\ UNCHANGED <<holidays, form, draggingBar, draggingListTicketId, draggedTicketId, tzOffset,
                 searchQuery>>

(* the collections a store or a file can hold: the forests of at most n    *)
(* tickets with any dates; a file can have a first row without id          *)
StoredCollections(n) == UNION {Forests(k) : k \in 0..n}

(* localStorage.getItem('smart_gantt_tickets'): null or a collection *)
SavedItems(n) == {NoSaved} \cup {[saved |-> TRUE, tickets |-> ts] : ts \in StoredCollections(n)}

CsvFiles(n) ==
    StoredCollections(n)
        \cup {<<Ticket(0, NoParent, 0, 0, 1)>> \o ts : ts \in StoredCollections(n - 1)}

InitLoad ==
    /\ tickets = <<>>
    /\ holidays = <<>>
    /\ form = NoForm
    /\ draggingBar = NoDrag
    /\ draggingListTicketId = NoParent
    /\ draggedTicketId = NoParent
    /\ tzOffset \in TzOffsets
    /\ searchQuery = NoQuery
    /\ outcome = "none"
    /\ last = "mount"

NextLoad ==
    \/ \E savedTickets \in SavedItems(MaxTickets) : loadSavedTickets(savedTickets)
    \/ \E rows \in CsvFiles(MaxTickets) : handleImportCsv(rows)

SpecLoad == InitLoad /\ [][NextLoad]_vars

---------------------------------------------------------------------------
(* The parent-chain walks as functions: one call of isAncestor or of        *)
(* isDescendant on a collection with any parentId graph.                    *)

CallIsAncestor(ancestorId, ticketId) ==
    /\ last = "load"
    /\ Done("isAncestor", [ancestorId |-> ancestorId, ticketId |-> ticketId,
                           result |-> isAncestor(ChartTickets, ancestorId, ticketId)])
    /\ UNCHANGED <<tickets, holidays, form, draggingBar, draggingListTicketId, draggedTicketId, tzOffset,
                 searchQuery>>

CallIsDescendant(potentialParentId, currentTicketId) ==
    /\ last = "load"
    /\ Done("isDescendant", [potentialParentId |-> potentialParentId,
                             currentTicketId |-> currentTicketId,
                             result |-> isDescendant(tickets, potentialParentId, currentTicketId)])
    /\ UNCHANGED <<tickets, holidays, form, draggingBar, draggingListTicketId, draggedTicketId, tzOffset,
                 searchQuery>>

NextWalk ==
    \/ \E ancestorId \in Ids, ticketId \in Ids : CallIsAncestor(ancestorId, ticketId)
    \/ \E potentialParentId \in Ids, currentTicketId \in Ids :
          CallIsDescendant(potentialParentId, currentTicketId)

SpecWalk == InitParents /\ [][NextWalk]_vars

---------------------------------------------------------------------------
(* Date edits of containers: updateTicket with a patch of startDate, of     *)
(* dueDate or of both, on the chain's leaf and on containers near its top   *)
(* and near its bottom.                                                     *)

ContainerPatches ==
    DatePatches \cup {[startDate |-> s] : s \in 0..MaxDay} \cup {[dueDate |-> d] : d \in 0..MaxDay}

ContainerIds == {2, 3, ChainLen - 3, ChainLen - 1, ChainLen}

(* a rolled-up chain of n tickets: every ticket has the dates of the leaf *)
RolledChain(n, dates) ==
    [k \in 1..n |-> Ticket(k, k - 1, dates.startDate, dates.dueDate, 1)]

InitContainer ==
    /\ tickets \in {RolledChain(n, dates) : n \in 2..ChainLen, dates \in DatePatches}
    /\ holidays = <<>>
    /\ form = NoForm
    /\ draggingBar = NoDrag
    /\ draggingListTicketId = NoParent
    /\ draggedTicketId = NoParent
    /\ tzOffset \in TzOffsets
    /\ searchQuery = NoQuery
    /\ outcome = "none"
    /\ last = "load"

NextContainer ==
    \E id \in ContainerIds, updates \in ContainerPatches : ApiUpdateTicket(id, updates)

SpecContainer == InitContainer /\ [][NextContainer]_vars

---------------------------------------------------------------------------
(* GanttChart.visibleItems, the rows of the list, in a sort mode other than *)
(* by assignee.                                                             *)

SortKeys == {"id", "dueDate"}
SortOrders == {"asc", "desc"}

(* valA / valB: parseInt(id), or new Date(date).getTime() *)
SortValue(t, sortBy) == IF sortBy = "id" THEN t.id ELSE NewDateIso(t[sortBy])

(* compareItems with the direction left out: always ascending *)
compareAscending(a, b, sortBy, sortOrder) ==
    LET valA == SortValue(a, sortBy)
        valB == SortValue(b, sortBy)
    IN  IF valA < valB THEN -1 ELSE IF valA > valB THEN 1 ELSE 0

(* the comparator given to Array.prototype.sort *)
compareItems(a, b, sortBy, sortOrder) ==
    LET valA == SortValue(a, sortBy)
        valB == SortValue(b, sortBy)
        order == IF sortOrder = "asc" THEN 1 ELSE -1
    IN  IF valA < valB THEN -1 * order ELSE IF valA > valB THEN 1 * order ELSE 0

(* Array.prototype.sort is stable: item goes behind the items not after it *)
InsertItem(sorted, item, sortBy, sortOrder) ==
    LET pos == Cardinality({i \in 1..Len(sorted) :
                               compareItems(sorted[i], item, sortBy, sortOrder) <= 0})
    IN  SubSeq(sorted, 1, pos) \o <<item>> \o SubSeq(sorted, pos + 1, Len(sorted))

RECURSIVE SortFirst(_, _, _, _)
SortFirst(items, n, sortBy, sortOrder) ==
    IF n = 0 THEN <<>>
    ELSE InsertItem(SortFirst(items, n - 1, sortBy, sortOrder), items[n], sortBy, sortOrder)

sortItems(items, sortBy, sortOrder) == SortFirst(items, Len(items), sortBy, sortOrder)

RECURSIVE traverse(_, _, _, _, _, _)
traverse(ts, items, depth, expandedIds, sortBy, sortOrder) ==
    IF items = <<>> THEN <<>>
    ELSE LET item == Head(items)
             children == sortItems(ChildrenOf(ts, item.id), sortBy, sortOrder)
         IN  <<[ticket |-> item, depth |-> depth, hasChildren |-> Len(children) > 0]>>
                 \o (IF item.id \in expandedIds
                     THEN traverse(ts, children, depth + 1, expandedIds, sortBy, sortOrder)
                     ELSE <<>>)
                 \o traverse(ts, Tail(items), depth, expandedIds, sortBy, sortOrder)

visibleItems(ts, expandedIds, sortBy, sortOrder) ==
    LET roots == sortItems(
            SelectSeq(ts, LAMBDA t : t.parentId = NoParent
                                        \/ ~ Some(ts, LAMBDA pt : pt.id = t.parentId)),
            sortBy, sortOrder)
    IN  traverse(ts, roots, 0, expandedIds, sortBy, sortOrder)

CallVisibleItems(expandedIds, sortBy, sortOrder) ==
    /\ last = "load"
    /\ Done("visibleItems", [expandedIds |-> expandedIds, sortBy |-> sortBy,
                             sortOrder |-> sortOrder,
                             result |-> visibleItems(ChartTickets, expandedIds, sortBy, sortOrder)])
    /\ UNCHANGED <<tickets, holidays, form, draggingBar, draggingListTicketId, draggedTicketId, tzOffset,
                 searchQuery>>

RECURSIVE ListedForests(_, _)
(* the forests of the tickets 1..n in the order of their ids, any ticket   *)
(* that is not ticket k's descendant being its parent, with any due date   *)
ListedForests(n, maxDay) ==
    IF n = 0 THEN {<<>>}
    ELSE {Append(ts, Ticket(n, p, 0, d, 1)) :
            ts \in ListedForests(n - 1, maxDay), p \in 0..(n - 1), d \in 0..maxDay}

(* the same tickets, listed last to first *)
Reversed(ts) == [i \in 1..Len(ts) |-> ts[Len(ts) + 1 - i]]

VisibleInputs(n, maxDay) ==
    UNION {ListedForests(k, maxDay) \cup {Reversed(ts) : ts \in ListedForests(k, maxDay)} :
              k \in 1..n}

InitVisible ==
    /\ tickets \in VisibleInputs(MaxTickets, MaxDay)
    /\ holidays = <<>>
    /\ form = NoForm
    /\ draggingBar = NoDrag
    /\ draggingListTicketId = NoParent
    /\ draggedTicketId = NoParent
    /\ tzOffset \in TzOffsets
    /\ searchQuery = NoQuery
    /\ outcome = "none"
    /\ last = "load"

NextVisible ==
    \E expandedIds \in SUBSET Ids, sortBy \in SortKeys, sortOrder \in SortOrders :
        CallVisibleItems(expandedIds, sortBy, sortOrder)

SpecVisible == InitVisible /\ [][NextVisible]_vars

---------------------------------------------------------------------------
(* The list behind the search box: a stored chain of three tickets, the     *)
(* search box typed into, and tickets of the list dragged onto others.      *)

InitSearch ==
    /\ tickets = <<Ticket(1, NoParent, 0, 0, 1), Ticket(2, 1, 0, 0, 1), Ticket(3, 2, 0, 0, 1)>>
    /\ holidays = <<>>
    /\ form = NoForm
    /\ draggingBar = NoDrag
    /\ draggingListTicketId = NoParent
    /\ draggedTicketId = NoParent
    /\ tzOffset \in TzOffsets
    /\ searchQuery = NoQuery
    /\ outcome = "none"
    /\ last = "load"

NextSearch ==
    \/ \E found \in SUBSET Ids : setSearchQuery(IF found = Ids THEN NoQuery ELSE SearchText(found))
    \/ \E i \in 1..MaxTickets : handleListDragStart(i)
    \/ \E targetId \in {NoParent} \cup Ids : handleListDrop(targetId)

SpecSearch == InitSearch /\ [][NextSearch]_vars

---------------------------------------------------------------------------
(* syncParentDates as a function: one call on a collection with any        *)
(* parentId graph and any dates.                                            *)

MaxFramed == 2

RECURSIVE AnyCollections(_, _)
(* the collections of the tickets 1..n, ticket k of k hours, with any       *)
(* parentId among the ids or none, any start date and an early or late due  *)
(* date                                                                     *)
AnyCollections(n, size) ==
    IF n = 0 THEN {<<>>}
    ELSE {Append(ts, Ticket(n, p, s, d, n)) :
            ts \in AnyCollections(n - 1, size), p \in 0..size, s \in 0..MaxDay, d \in {0, MaxDay}}

CallSyncParentDates ==
    /\ last = "load"
    /\ Done("syncParentDates call", [allTickets |-> tickets, result |-> syncParentDates(tickets)])
    /\ UNCHANGED <<tickets, holidays, form, draggingBar, draggingListTicketId, draggedTicketId, tzOffset,
                 searchQuery>>

InitFrame ==
    /\ tickets \in UNION {AnyCollections(n, n) : n \in 1..MaxFramed}
    /\ holidays = <<>>
    /\ form = NoForm
    /\ draggingBar = NoDrag
    /\ draggingListTicketId = NoParent
    /\ draggedTicketId = NoParent
    /\ tzOffset \in TzOffsets
    /\ searchQuery = NoQuery
    /\ outcome = "none"
    /\ last = "load"

NextFrame == CallSyncParentDates

SpecFrame == InitFrame /\ [][NextFrame]_vars

---------------------------------------------------------------------------
(* Properties of the collection *)

(* every ticket with a direct child spans exactly its direct children *)
RollupHolds(ts) ==
    \A i \in 1..Len(ts) :
        LET children == ChildrenOf(ts, ts[i].id)
        IN  Len(children) > 0 =>
                /\ ts[i].startDate = SeqMin(children, GetStart)
                /\ ts[i].dueDate = SeqMax(children, GetDue)

RECURSIVE ReachesRoot(_, _, _)
(* from ticket current, parentId leads to a ticket with no parent, or with a *)
(* parent that is not in the collection, in at most fuel steps               *)
ReachesRoot(ts, current, fuel) ==
    IF current = 0 \/ ts[current].parentId = NoParent THEN TRUE
    ELSE IF fuel = 0 THEN FALSE
    ELSE ReachesRoot(ts, IndexOfId(ts, ts[current].parentId), fuel - 1)

IsForest(ts) == \A i \in 1..Len(ts) : ReachesRoot(ts, i, Len(ts))

HasId(ts, id) == Some(ts, LAMBDA t : t.id = id)

NoDanglingParent(ts) ==
    \A i \in 1..Len(ts) : ts[i].parentId # NoParent => HasId(ts, ts[i].parentId)

(* y is x or is below x *)
IsSelfOrDescendant(ts, y, x) == y = x \/ isAncestor(ts, x, y) = "yes"

---------------------------------------------------------------------------
(* C1 (as claimed): after every updateTask call, every ticket with direct    *)
(* children has startDate = the least startDate and dueDate = the greatest   *)
(* dueDate of its direct children, on chains of any length.                  *)
C1_RollupAfterUpdate == last = "updateTicket" => RollupHolds(tickets)

(* C2 (as claimed): in every reachable state the parentId graph is a forest: *)
(* from every ticket, parentId leads to a root within |tickets| steps.       *)
C2_Acyclic == IsForest(tickets)

(* C3 (as claimed): updateTask(X, {parentId: Y}) with Y = X or Y below X     *)
(* fails with InvalidOperation and leaves the collection as it was.          *)
C3_CycleRejected ==
    [][\A x \in Ids, y \in Ids :
          (/\ HasId(tickets, x)
           /\ IsSelfOrDescendant(tickets, y, x)
           /\ ApiUpdateTicket(x, [parentId |-> y]))
          => (tickets' = tickets /\ outcome' = "InvalidOperation")]_vars

(* C4 (as claimed): updateTask with an id that is not in the collection      *)
(* reports NotFound and leaves the collection as it was.                     *)
C4_NotFound ==
    [][\A id \in ChainIds, updates \in DatePatches :
          (~ HasId(tickets, id) /\ ApiUpdateTicket(id, updates))
          => (tickets' = tickets /\ outcome' = "NotFound")]_vars

(* C4, the collection alone: an update that names no ticket changes no ticket *)
C4_CollectionUnchanged ==
    [][\A id \in ChainIds, updates \in DatePatches :
          (~ HasId(tickets, id) /\ ApiUpdateTicket(id, updates))
          => tickets' = tickets]_vars

(* C5 (as claimed): after deleteTask no ticket has a parentId that names an  *)
(* id absent from the collection.                                            *)
C5_NoDanglingAfterDelete == last = "deleteTicket" => NoDanglingParent(tickets)

(* C6 (as claimed): deleteTask(id) removes the tickets with that id and no   *)
(* other, and leaves startDate, dueDate and estimatedHours of every          *)
(* descendant of the deleted ticket as they were.                            *)
C6_DeleteFrame ==
    [][\A id \in ChainIds :
          ApiDeleteTicket(id) =>
            LET kept == SelectSeq(tickets, LAMBDA t : t.id # id)
            IN  /\ Len(tickets') = Len(kept)
                /\ \A j \in 1..Len(kept) :
                      /\ tickets'[j].id = kept[j].id
                      /\ isAncestor(tickets, id, kept[j].id) = "yes"
                            => /\ tickets'[j].startDate = kept[j].startDate
                               /\ tickets'[j].dueDate = kept[j].dueDate
                               /\ tickets'[j].estimatedHours = kept[j].estimatedHours]_vars

(* C7 (as claimed): after createTask with a parentId and after deleteTask,   *)
(* every ticket that still has a direct child spans exactly its children.    *)
C7_RollupAfterCreateDelete ==
    last \in {"saveTicketNew", "deleteTicket"} => RollupHolds(tickets)

(* C8 (as claimed): the output of one syncParentDates call on a forest is a  *)
(* fixed point: a second call returns it unchanged.                          *)
C8_RollupIdempotent ==
    (last = "syncParentDates" /\ IsForest(tickets)) => syncParentDates(tickets) = tickets

(* the due date the calendar gives a ticket's start date and estimated hours *)
ScheduledDue(t, hol) == formatDate(addWorkDays(parseDate(t.startDate), t.estimatedHours, hol))

(* C9 (as claimed): in every reachable state every ticket without children  *)
(* has dueDate = advanceWorkingDays(startDate, estimatedHours, holidays).    *)
C9_LeafScheduling ==
    \A i \in 1..Len(tickets) :
        ~ hasChildren(tickets, tickets[i].id) => tickets[i].dueDate = ScheduledDue(tickets[i], holidays)

(* C10: whenever a resize-end drag of a leaf's bar produces an update, the   *)
(* ticket as updated has dueDate = advanceWorkingDays(startDate,             *)
(* estimatedHours, holidays), also when startDate is a non-working day.      *)
C10_ResizeEndRoundTrip ==
    [][\A daysDelta \in Deltas :
          (/\ draggingBar # NoDrag
           /\ draggingBar.type = "resize-end"
           /\ handleMouseMove(daysDelta)
           /\ outcome' = "updated")
          => \A i \in 1..Len(tickets') :
                tickets'[i].id = draggingBar.id
                    => tickets'[i].dueDate = ScheduledDue(tickets'[i], holidays)]_vars

(* a resize-end drag has changed the due date and the hours of a leaf whose  *)
(* start date is a Saturday, a Sunday or a holiday                           *)
C10_Witness ==
    /\ last = "resize-end"
    /\ draggingBar # NoDrag
    /\ \E i \in 1..Len(tickets) :
          /\ tickets[i].id = draggingBar.id
          /\ ~ isWorkDay(parseDate(tickets[i].startDate), holidays)
          /\ tickets[i].dueDate # draggingBar.originalEnd
          /\ tickets[i].estimatedHours # draggingBar.estimatedHours

(* C11 (as claimed): from a collection in which every ticket starts no later *)
(* than it ends, every ticket of every reachable state has                   *)
(* startDate <= dueDate.                                                     *)
C11_StartNotAfterDue ==
    \A i \in 1..Len(tickets) : tickets[i].startDate <= tickets[i].dueDate

(* the calendar as the specification words it: day 0 is a Thursday, so the   *)
(* Saturdays are the days 2, 9, ... and the Sundays the days 3, 10, ...      *)
IsWeekend(day) == day % 7 = 2 \/ day % 7 = 3

IsHoliday(day, hol) == \E k \in 1..Len(hol) : hol[k] = day

IsWorkingDay(day, hol) == ~ IsWeekend(day) /\ ~ IsHoliday(day, hol)

(* the first working day on or after day; a list of n holidays and a weekend *)
(* leave a working day among any n + 3 days in a row                         *)
FirstWorkingDay(day, hol) ==
    CHOOSE e \in day..(day + Len(hol) + 2) :
        IsWorkingDay(e, hol) /\ \A x \in day..(e - 1) : ~ IsWorkingDay(x, hol)

WorkingDaysIn(first, lastDay, hol) ==
    Cardinality({x \in first..lastDay : IsWorkingDay(x, hol)})

(* C12: for n >= 1, r = addWorkDays(d, n, H) is a working day, not before    *)
(* d_eff, the first working day on or after d, and countWorkDays(d_eff, r,   *)
(* H) = n.                                                                   *)
C12_AdvanceContract ==
    (last = "addWorkDays" /\ outcome.workDays >= 1) =>
        LET r == outcome.result
            dEff == FirstWorkingDay(LocalDay(outcome.startDate), holidays)
        IN  /\ IsWorkingDay(LocalDay(r), holidays)
            /\ LocalDay(r) >= dEff
            /\ countWorkDays(LocalMidnight(dEff), r, holidays) = outcome.workDays

(* d is a Saturday in the afternoon, n is 3 and a holiday falls on one of    *)
(* the days counted over: the call has returned                              *)
C12_Witness ==
    /\ last = "addWorkDays"
    /\ outcome.workDays = 3
    /\ LocalDay(outcome.startDate) % 7 = 2
    /\ outcome.startDate # LocalMidnight(LocalDay(outcome.startDate))
    /\ \E x \in LocalDay(outcome.startDate)..LocalDay(outcome.result) : IsHoliday(x, holidays)

(* C13: for a fixed start date and holiday list, addWorkDays is              *)
(* non-decreasing in the number of work days: n1 <= n2 gives                 *)
(* addWorkDays(d, n1, H) <= addWorkDays(d, n2, H).                           *)
C13_AdvanceMonotone ==
    last = "addWorkDays" =>
        \A n1 \in (-2)..MaxWork :
            n1 <= outcome.workDays
                => addWorkDays(outcome.startDate, Whole(n1), holidays) <= outcome.result

(* a call with the largest number of work days has gone past a day that is   *)
(* no work day and has ended later than the call for one work day            *)
C13_Witness ==
    /\ last = "addWorkDays"
    /\ outcome.workDays = MaxWork
    /\ addWorkDays(outcome.startDate, Whole(1), holidays) < outcome.result
    /\ \E x \in LocalDay(outcome.startDate)..LocalDay(outcome.result) :
          ~ IsWorkingDay(x, holidays)

(* C14: addWorkDays(d, n, H) with n = 0 or n negative returns what           *)
(* addWorkDays(d, 1, H) returns, the first working day on or after d.        *)
C14_NonPositiveIsOne ==
    (last = "addWorkDays" /\ outcome.workDays <= 0) =>
        /\ outcome.result = addWorkDays(outcome.startDate, Whole(1), holidays)
        /\ outcome.result =
              LocalMidnight(FirstWorkingDay(LocalDay(outcome.startDate), holidays))

(* a call with -2 work days from a day that is no working day has returned   *)
C14_Witness ==
    /\ last = "addWorkDays"
    /\ outcome.workDays = -2
    /\ ~ IsWorkingDay(LocalDay(outcome.startDate), holidays)
    /\ LocalDay(outcome.result) > LocalDay(outcome.startDate)

(* C15: isWorkDay(date, holidays) is false exactly when the calendar day of  *)
(* date is a Saturday, a Sunday or the day of some holiday, at any time of   *)
(* the day.                                                                  *)
C15_IsWorkDayExact ==
    last = "isWorkDay" =>
        outcome.result = IsWorkingDay(LocalDay(outcome.date), holidays)

(* isWorkDay has said no for an afternoon of a weekday that is a holiday *)
C15_Witness ==
    /\ last = "isWorkDay"
    /\ outcome.result = FALSE
    /\ ~ IsWeekend(LocalDay(outcome.date))
    /\ IsHoliday(LocalDay(outcome.date), holidays)
    /\ outcome.date # LocalMidnight(LocalDay(outcome.date))

(* C16: countWorkDays(start, end, H) is the number of working days among the *)
(* calendar days from start to end, 0 when start is after end; a holiday on  *)
(* a weekend or listed twice takes no more off than the weekend or the one   *)
(* holiday does.                                                             *)
C16_CountExact ==
    last = "countWorkDays" =>
        outcome.result =
            IF LocalDay(outcome.start) > LocalDay(outcome.end) THEN 0
            ELSE WorkingDaysIn(LocalDay(outcome.start), LocalDay(outcome.end), holidays)

(* a count over a range that holds a weekday holiday listed twice, or a      *)
(* holiday on a weekend, and some working day                                *)
C16_Witness ==
    /\ last = "countWorkDays"
    /\ outcome.result > 0
    /\ Len(holidays) = 2
    /\ \/ holidays[1] = holidays[2]
       \/ IsWeekend(holidays[1])
    /\ LocalDay(outcome.start) <= holidays[1]
    /\ holidays[1] <= LocalDay(outcome.end)

RECURSIVE Below(_, _, _)
(* the ids reached from the set ids by going from parent to child, rounds times *)
Below(ts, ids, rounds) ==
    IF rounds = 0 THEN ids
    ELSE Below(ts, ids \cup {ts[i].id : i \in {j \in 1..Len(ts) : ts[j].parentId \in ids}},
               rounds - 1)

(* the ids of the direct and the transitive children of ticket x *)
DescendantIds(ts, x) ==
    Below(ts, {ts[i].id : i \in {j \in 1..Len(ts) : ts[j].parentId = x}}, Len(ts))

(* no two tickets have the same id *)
UniqueIds(ts) == \A i \in 1..Len(ts), j \in 1..Len(ts) : ts[i].id = ts[j].id => i = j

(* C17: for a ticket X of a forest (of tickets with ids of their own) that   *)
(* is open in the form, the parents offered are all tickets but X itself     *)
(* and the direct and transitive descendants of X.                           *)
C17_EligibleParents ==
    (form # NoForm /\ form.ticket # NoTicket /\ IsForest(tickets) /\ UniqueIds(tickets)) =>
        potentialParents(tickets, form.ticket) =
            {tickets[i].id : i \in 1..Len(tickets)}
                \ ({form.ticket.id} \cup DescendantIds(tickets, form.ticket.id))

(* the form is open on a ticket that has a child and a grandchild: with     *)
(* every other ticket below it, no parent is offered                        *)
C17_Witness ==
    /\ form # NoForm
    /\ form.ticket # NoTicket
    /\ IsForest(tickets)
    /\ UniqueIds(tickets)
    /\ \E i \in 1..Len(tickets), j \in 1..Len(tickets) :
          /\ tickets[i].parentId = form.ticket.id
          /\ tickets[j].parentId = tickets[i].id
          /\ tickets[j].id # tickets[i].id
          /\ tickets[i].id # form.ticket.id
          /\ tickets[j].id # form.ticket.id
    /\ Len(tickets) = MaxTickets

(* C18: a resize-start or resize-end gesture on a ticket that has a direct  *)
(* child in the collection issues no update: while such a gesture is held,  *)
(* no step changes the collection, whatever the search box holds            *)
C18_ParentResizeIgnored ==
    [][(/\ draggingBar # NoDrag
        /\ draggingBar.type # "move"
        /\ hasChildren(tickets, draggingBar.id)) => tickets' = tickets]_vars

(* the working days of the inclusive range a resize by daysDelta days asks   *)
(* for: the dragged end moved, and kept inside the timeline                 *)
ResizedSpan(bar, daysDelta, hol) ==
    IF bar.type = "resize-end"
    THEN LET asked == bar.originalEnd + daysDelta
             lastDay == IF asked > LocalDay(timelineMax) THEN LocalDay(timelineMax) ELSE asked
         IN  WorkingDaysIn(bar.originalStart, lastDay, hol)
    ELSE LET asked == bar.originalStart + daysDelta
             first == IF asked < LocalDay(timelineMin) THEN LocalDay(timelineMin) ELSE asked
         IN  WorkingDaysIn(first, bar.originalEnd, hol)

(* C19: a mouse move of a resize-start or resize-end gesture whose range    *)
(* would hold fewer than one working day issues no update and leaves the    *)
(* collection as it was                                                     *)
C19_EmptySpanIgnored ==
    [][\A daysDelta \in Deltas :
          (/\ draggingBar # NoDrag
           /\ draggingBar.type # "move"
           /\ handleMouseMove(daysDelta)
           /\ ResizedSpan(draggingBar, daysDelta, holidays) < 1)
          => tickets' = tickets /\ outcome' = "ignored"]_vars

(* a mouse move of a resize gesture was ignored on a bar that a move of one *)
(* day leaves without a working day                                         *)
C19_Witness ==
    /\ last = "handleMouseMove"
    /\ outcome = "ignored"
    /\ draggingBar # NoDrag
    /\ draggingBar.type # "move"
    /\ \E daysDelta \in Deltas \ {0} : ResizedSpan(draggingBar, daysDelta, holidays) < 1

(* C20: ticket ids are unique: in every state reached by creations (with the *)
(* ids saveTicket draws), updates and deletions, no two tickets of the      *)
(* collection have the same id                                              *)
C20_UniqueIds == UniqueIds(tickets)

(* C21: in every state reached through ticket creation, form saves and bar  *)
(* drags, every ticket has estimatedHours >= 1                              *)
C21_AtLeastOneHour ==
    \A i \in 1..Len(tickets) : tickets[i].estimatedHours >= Whole(1)

(* C22: right after a bulk load, from the saved collection or from a CSV    *)
(* file, every ticket with a direct child has the least startDate and the   *)
(* greatest dueDate of its direct children                                  *)
C22_RollupAfterLoad ==
    ((last = "loadSavedTickets" /\ outcome = "loaded")
        \/ (last = "handleImportCsv" /\ outcome = "imported"))
    => RollupHolds(tickets)

RECURSIVE Passes(_, _)
(* the collection after n passes of the rollup *)
Passes(ts, n) == IF n = 0 THEN ts ELSE SyncPass(Passes(ts, n - 1))

(* the rollup of ts runs all its passes and the last one still changes a ticket *)
CapHit(ts) == Passes(ts, MaxIterations) # Passes(ts, MaxIterations - 1)

(* C23: a rollup that performs its 10 passes, the last of which still       *)
(* changed a ticket, reports a MalformedTree error and does not return a    *)
(* collection as if it had succeeded                                        *)
C23_CapReported ==
    [][(Rollup /\ CapHit(tickets)) => outcome' = "MalformedTree"]_vars

RECURSIVE DepthOf(_, _, _)
(* the number of parentId steps from ticket i of a forest up to its root *)
DepthOf(ts, i, fuel) ==
    IF fuel = 0 \/ ts[i].parentId = NoParent \/ IndexOfId(ts, ts[i].parentId) = 0 THEN 0
    ELSE 1 + DepthOf(ts, IndexOfId(ts, ts[i].parentId), fuel - 1)

(* the maximum depth of a forest *)
MaxDepth(ts) ==
    IF Len(ts) = 0 THEN 0
    ELSE CHOOSE d \in 0..Len(ts) :
            /\ \E i \in 1..Len(ts) : DepthOf(ts, i, Len(ts)) = d
            /\ \A i \in 1..Len(ts) : DepthOf(ts, i, Len(ts)) <= d

(* C24: the rollup of a forest of maximum depth D ends, after D passes at   *)
(* most, in a collection that a further pass leaves as it is, whatever the  *)
(* dates of the containers were                                             *)
C24_FixedPointWithinDepth ==
    [][(Rollup /\ IsForest(tickets)) =>
          /\ \E n \in 0..MaxDepth(tickets) : tickets' = Passes(tickets, n)
          /\ SyncPass(tickets') = tickets']_vars

(* C25: isAncestor(ancestorId, ticketId) ends on every collection, also on  *)
(* one with a parent cycle that ancestorId is not on: it stops after at     *)
(* most as many upward steps as there are tickets (and so does isDescendant) *)
C25_WalkEnds ==
    last \in {"isAncestor", "isDescendant"} => outcome.result # "loops"

(* C26: an updateTicket call with a patch of startDate and/or dueDate on a  *)
(* ticket with a direct child, in a rolled-up forest, leaves the whole      *)
(* collection as it was                                                     *)
C26_ContainerDatesKept ==
    [][\A id \in ContainerIds, updates \in ContainerPatches :
          (/\ hasChildren(tickets, id)
           /\ IsForest(tickets)
           /\ RollupHolds(tickets)
           /\ ApiUpdateTicket(id, updates))
          => tickets' = tickets]_vars

RECURSIVE AncestorIds(_, _, _)
(* the ids of the tickets above ticket i of a forest *)
AncestorIds(ts, i, fuel) ==
    IF fuel = 0 \/ ts[i].parentId = NoParent \/ IndexOfId(ts, ts[i].parentId) = 0 THEN {}
    ELSE {ts[i].parentId} \cup AncestorIds(ts, IndexOfId(ts, ts[i].parentId), fuel - 1)

(* the ids of the tickets above the ticket with this id *)
AncestorsOf(ts, id) == AncestorIds(ts, IndexOfId(ts, id), Len(ts))

(* the place of a sibling in its sort mode: the id, or the day of the date *)
SiblingRank(t, sortBy) == IF sortBy = "id" THEN t.id ELSE t[sortBy]

(* C27: the visible list of a forest is a depth-first pre-order traversal:  *)
(* no ticket is listed twice; a ticket is listed exactly when all tickets   *)
(* above it are expanded; a listed child comes after its parent, one level  *)
(* deeper, with only tickets below that parent in between; and the tickets  *)
(* of one parent come in the order of the sort key and direction            *)
C27_VisiblePreOrder ==
    (last = "visibleItems" /\ IsForest(tickets) /\ UniqueIds(tickets)) =>
        LET rows == outcome.result
            shown == {rows[k].ticket.id : k \in 1..Len(rows)}
        IN  /\ \A j, k \in 1..Len(rows) : rows[j].ticket.id = rows[k].ticket.id => j = k
            /\ \A k \in 1..Len(rows) : Some(tickets, LAMBDA t : t = rows[k].ticket)
            /\ \A i \in 1..Len(tickets) :
                  tickets[i].id \in shown
                      <=> AncestorsOf(tickets, tickets[i].id) \subseteq outcome.expandedIds
            /\ \A k \in 1..Len(rows) :
                  IF rows[k].ticket.parentId = NoParent THEN rows[k].depth = 0
                  ELSE \E j \in 1..(k - 1) :
                          /\ rows[j].ticket.id = rows[k].ticket.parentId
                          /\ rows[k].depth = rows[j].depth + 1
                          /\ \A m \in (j + 1)..(k - 1) :
                                rows[j].ticket.id \in AncestorsOf(tickets, rows[m].ticket.id)
            /\ \A j, k \in 1..Len(rows) :
                  (j < k /\ rows[j].ticket.parentId = rows[k].ticket.parentId) =>
                      IF outcome.sortOrder = "asc"
                      THEN SiblingRank(rows[j].ticket, outcome.sortBy)
                              <= SiblingRank(rows[k].ticket, outcome.sortBy)
                      ELSE SiblingRank(rows[j].ticket, outcome.sortBy)
                              >= SiblingRank(rows[k].ticket, outcome.sortBy)

(* the list of three tickets was computed by due date, latest first: a     *)
(* collapsed parent hides its child, and two tickets of one parent are     *)
(* listed in the other order than the collection holds them                *)
C27_Witness ==
    /\ last = "visibleItems"
    /\ IsForest(tickets) /\ UniqueIds(tickets)
    /\ Len(tickets) = 3
    /\ outcome.sortBy = "dueDate" /\ outcome.sortOrder = "desc"
    /\ Len(outcome.result) = 2
    /\ \E i, j \in 1..3 :
          /\ i < j
          /\ tickets[i].parentId = tickets[j].parentId
          /\ tickets[i].dueDate < tickets[j].dueDate
          /\ outcome.result[1].ticket = tickets[j]
          /\ outcome.result[2].ticket = tickets[i]

(* the dates a gesture that consists of one mouse move by daysDelta days    *)
(* gives the dragged ticket: those of the update, and for what the update   *)
(* leaves out, or without update, those captured at mouse-down              *)
DatesOfMove(bar, daysDelta, hol) ==
    LET updates == IF daysDelta = 0 THEN NoUpdate ELSE DragUpdate(bar, daysDelta, hol)
    IN  [startDate |-> IF "startDate" \in DOMAIN updates THEN updates.startDate
                       ELSE bar.originalStart,
         dueDate |-> IF "dueDate" \in DOMAIN updates THEN updates.dueDate
                     ELSE bar.originalEnd]

(* C28: during a drag gesture on a leaf bar the dates of the ticket after a *)
(* mouse move depend on the values captured at mouse-down and on the day    *)
(* delta of that move only, not on the moves before it; after a move with   *)
(* day delta 0 the ticket has the dates it had at mouse-down                *)
C28_LastMoveDecides ==
    [][\A daysDelta \in Deltas :
          (draggingBar # NoDrag /\ handleMouseMove(daysDelta)) =>
              \A i \in 1..Len(tickets') :
                  tickets'[i].id = draggingBar.id =>
                      /\ tickets'[i].startDate
                            = DatesOfMove(draggingBar, daysDelta, holidays).startDate
                      /\ tickets'[i].dueDate
                            = DatesOfMove(draggingBar, daysDelta, holidays).dueDate]_vars

(* C29: with any search or filter active, dropping ticket X of the list on  *)
(* a listed ticket Y that is below X in the whole collection issues no      *)
(* update, also when a ticket between Y and X is not listed                 *)
C29_FilteredDropGuarded ==
    [][\A targetId \in Ids :
          (/\ draggingListTicketId # NoParent
           /\ IsForest(tickets) /\ UniqueIds(tickets)
           /\ draggingListTicketId \in AncestorsOf(tickets, targetId)
           /\ handleListDrop(targetId))
          => tickets' = tickets /\ outcome' # "updated"]_vars

(* C30: the rollup changes nothing but the startDate and dueDate of tickets *)
(* with a direct child: its output has the tickets of the input in the same *)
(* order, with the same id, parentId and estimatedHours, and a ticket       *)
(* without children has the dates it had                                   *)
C30_RollupFrame ==
    last = "syncParentDates call" =>
        LET allTickets == outcome.allTickets
            result == outcome.result
        IN  /\ Len(result) = Len(allTickets)
            /\ \A i \in 1..Len(allTickets) :
                  /\ DOMAIN result[i] = DOMAIN allTickets[i]
                  /\ result[i].id = allTickets[i].id
                  /\ result[i].parentId = allTickets[i].parentId
                  /\ result[i].estimatedHours = allTickets[i].estimatedHours
                  /\ ~ hasChildren(allTickets, allTickets[i].id) =>
                        /\ result[i].startDate = allTickets[i].startDate
                        /\ result[i].dueDate = allTickets[i].dueDate

(* a rollup has changed the dates of a ticket whose child has other hours   *)
(* and other dates than it                                                  *)
C30_Witness ==
    /\ last = "syncParentDates call"
    /\ \E i, j \in 1..Len(outcome.allTickets) :
          /\ outcome.allTickets[j].parentId = outcome.allTickets[i].id
          /\ i # j
          /\ outcome.allTickets[j].estimatedHours # outcome.allTickets[i].estimatedHours
          /\ outcome.result[i].dueDate # outcome.allTickets[i].dueDate
          /\ ~ hasChildren(outcome.allTickets, outcome.allTickets[j].id)

====
